---- MODULE Spec2Model ----
(***************************************************************************)
(* Model of i18n_converter.py: the conversion of a translation table into  *)
(* Android, iOS and PC resource files.                                     *)
(*                                                                         *)
(* Text is modelled as a sequence of one-character strings, so that the    *)
(* string operations of the program (strip, lower, replace, the regular    *)
(* expression search) are computed character by character.                 *)
(***************************************************************************)
EXTENDS Integers, Sequences, FiniteSets, TLC

VARIABLES
    pc,                \* position in main / convert_table
    args_platforms,    \* args.platforms, split at ',' (a sequence of raw tokens)
    xlsx,              \* what the file at input_path holds
    platform_list,     \* main's platform_list
    root_exists,       \* does output_root exist
    old,               \* entries of output_root that predate the run and are still there
    fsys,              \* files written by this run: path -> content
    df,                \* the DataFrame inside convert_table (normalized once validated)
    language_columns,  \* convert_table's language_columns, in insertion order
    fallback_col,      \* convert_table's fallback_col
    ci,                \* index in language_columns of the column being processed
    items,             \* convert_table's items for the current column
    trace              \* history: the I/O operations performed so far, in order

vars == <<pc, args_platforms, xlsx, platform_list, root_exists, old, fsys, df,
          language_columns, fallback_col, ci, items, trace>>

Range(s) == {s[i] : i \in DOMAIN s}

(***************************************************************************)
(* Characters and string primitives of Python                              *)
(***************************************************************************)
QUOT == "\""
BSL == "\\"
APOS == "'"
AMP == "&"
LT == "<"
GT == ">"
NL == "\n"

\* the characters str.strip() removes (those that occur in the model)
Whitespace == {" ", "\t", "\n"}

RECURSIVE LStrip(_)
LStrip(s) == IF s # <<>> /\ Head(s) \in Whitespace THEN LStrip(Tail(s)) ELSE s

RECURSIVE RStrip(_)
RStrip(s) ==
    IF s # <<>> /\ s[Len(s)] \in Whitespace
    THEN RStrip(SubSeq(s, 1, Len(s) - 1)) ELSE s

\* str.strip()
Strip(s) == RStrip(LStrip(s))

UpperAlpha == <<"A","B","C","D","E","F","G","H","I","J","K","L","M",
                "N","O","P","Q","R","S","T","U","V","W","X","Y","Z">>
LowerAlpha == <<"a","b","c","d","e","f","g","h","i","j","k","l","m",
                "n","o","p","q","r","s","t","u","v","w","x","y","z">>

LowerChar(c) ==
    IF \E i \in DOMAIN UpperAlpha : UpperAlpha[i] = c
    THEN LowerAlpha[CHOOSE i \in DOMAIN UpperAlpha : UpperAlpha[i] = c]
    ELSE c

\* str.lower()
Lower(s) == [i \in 1..Len(s) |-> LowerChar(s[i])]

\* str.replace(o, n) for a one-character o
RECURSIVE Replace(_, _, _)
Replace(s, o, n) ==
    IF s = <<>> THEN <<>>
    ELSE (IF Head(s) = o THEN n ELSE <<Head(s)>>) \o Replace(Tail(s), o, n)

\* s.startswith(p)
StartsWith(s, p) == Len(s) >= Len(p) /\ SubSeq(s, 1, Len(p)) = p

RECURSIVE Flatten(_)
Flatten(ss) == IF ss = <<>> THEN <<>> ELSE Head(ss) \o Flatten(Tail(ss))

(***************************************************************************)
(* parse_language_code                                                     *)
(***************************************************************************)
\* A column header: its text, and whether the header object is a str
\* (for a non-str header, s is str(column_name)).
Str(s) == [isstr |-> TRUE, s |-> s]
NonStr(s) == [isstr |-> FALSE, s |-> s]

\* [^)]+ is greedy: index of the last character of the maximal run of
\* characters other than ')' that starts at k (k - 1 when the run is empty)
RECURSIVE RunEnd(_, _)
RunEnd(s, k) == IF k <= Len(s) /\ s[k] # ")" THEN RunEnd(s, k + 1) ELSE k - 1

\* the pattern with * in place of +: an empty group matches too
MatchAtStar(s, i) ==
    /\ s[i] = "("
    /\ RunEnd(s, i + 1) + 1 <= Len(s)

\* does r"\(([^)]+)\)" match at position i: '(' , one or more non-')', ')'
MatchAt(s, i) ==
    /\ s[i] = "("
    /\ RunEnd(s, i + 1) >= i + 1
    /\ RunEnd(s, i + 1) + 1 <= Len(s)

\* re.search(r"\(([^)]+)\)", s): the leftmost match and its group 1
re_search(s) ==
    IF \E i \in 1..Len(s) : MatchAt(s, i)
    THEN LET i == CHOOSE k \in 1..Len(s) :
                      MatchAt(s, k) /\ \A j \in 1..(k - 1) : ~MatchAt(s, j)
         IN [matched |-> TRUE, group |-> SubSeq(s, i + 1, RunEnd(s, i + 1))]
    ELSE [matched |-> FALSE, group |-> <<>>]

parse_language_code(column_name) ==
    IF ~column_name.isstr
    THEN Strip(column_name.s)
    ELSE LET match == re_search(column_name.s)
         IN IF match.matched THEN Strip(match.group) ELSE Strip(column_name.s)

(***************************************************************************)
(* determine_fallback_column                                               *)
(***************************************************************************)
\* the English codes the documentation names
ClaimedEnglishCodes ==
    { <<"e","n">>, <<"e","n","-","u","s">>, <<"e","n","_","u","s">>,
      <<"e","n","g","l","i","s","h">> }

english_codes ==
    { <<"e","n">>, <<"e","n","-","u","s">>, <<"e","n","_","u","s">>,
      <<"e","n","g","l","i","s","h">>, <<"e","s">> }

\* languages: the dict as the sequence of its <<col, code>> items in
\* insertion order.  The ValueError of an empty mapping cannot be raised from
\* convert_table, which calls this with a non-empty mapping only.
determine_fallback_column(languages) ==
    IF \E i \in 1..Len(languages) : Lower(languages[i][2]) \in english_codes
    THEN languages[CHOOSE i \in 1..Len(languages) :
                      /\ Lower(languages[i][2]) \in english_codes
                      /\ \A j \in 1..(i - 1) :
                            Lower(languages[j][2]) \notin english_codes][1]
    ELSE languages[1][1]

(***************************************************************************)
(* escape_android_text and the XML library calls of write_android_resources*)
(***************************************************************************)
E_AMP == <<"&","a","m","p",";">>
E_LT == <<"&","l","t",";">>
E_GT == <<"&","g","t",";">>
E_QUOT == <<"&","q","u","o","t",";">>
E_NL == <<"&","#","1","0",";">>
E_TAB == <<"&","#","0","9",";">>

\* The replacements dict is applied in insertion order, '&' first; its entry
\* for '"' maps the double quote to '\"', which in Python is the double quote
\* itself.  text is never None here: convert_table passes str values only.
escape_android_text(text) ==
    LET t1 == Replace(text, AMP, E_AMP)
        t2 == Replace(t1, LT, E_LT)
        t3 == Replace(t2, GT, E_GT)
        t4 == Replace(t3, QUOT, <<QUOT>>)
    IN Replace(t4, APOS, <<BSL, APOS>>)

\* ElementTree._escape_cdata, applied by ET.tostring to elem.text
EtEscapeCdata(text) ==
    Replace(Replace(Replace(text, AMP, E_AMP), LT, E_LT), GT, E_GT)

\* ElementTree._escape_attrib, applied by ET.tostring to the name attribute
EtEscapeAttrib(text) ==
    LET t1 == Replace(text, AMP, E_AMP)
        t2 == Replace(t1, LT, E_LT)
        t3 == Replace(t2, GT, E_GT)
        t4 == Replace(t3, QUOT, E_QUOT)
        t5 == Replace(t4, NL, E_NL)
    IN Replace(t5, "\t", E_TAB)

\* minidom.parseString: the character data and attribute values of the parsed
\* document have their entity and character references resolved
RECURSIVE XmlUnescape(_)
XmlUnescape(s) ==
    IF s = <<>> THEN <<>>
    ELSE IF StartsWith(s, E_AMP) THEN <<AMP>> \o XmlUnescape(SubSeq(s, 6, Len(s)))
    ELSE IF StartsWith(s, E_LT) THEN <<LT>> \o XmlUnescape(SubSeq(s, 5, Len(s)))
    ELSE IF StartsWith(s, E_GT) THEN <<GT>> \o XmlUnescape(SubSeq(s, 5, Len(s)))
    ELSE IF StartsWith(s, E_QUOT) THEN <<QUOT>> \o XmlUnescape(SubSeq(s, 7, Len(s)))
    ELSE IF StartsWith(s, E_NL) THEN <<NL>> \o XmlUnescape(SubSeq(s, 6, Len(s)))
    ELSE IF StartsWith(s, E_TAB) THEN <<"\t">> \o XmlUnescape(SubSeq(s, 6, Len(s)))
    ELSE <<Head(s)>> \o XmlUnescape(Tail(s))

\* minidom._write_data, applied by toprettyxml to text nodes and attribute
\* values.  quot: whether the double quote is written as &quot; (it always is
\* in attribute values; in text nodes it depends on the library version).
MinidomWriteData(data, quot) ==
    LET t1 == Replace(data, AMP, E_AMP)
        t2 == Replace(t1, LT, E_LT)
        t3 == IF quot THEN Replace(t2, QUOT, E_QUOT) ELSE t2
    IN Replace(t3, GT, E_GT)

XML_DECL == <<"<","?","x","m","l"," ","v","e","r","s","i","o","n","=",QUOT,"1",".","0",QUOT," ","e","n","c","o","d","i","n","g","=",QUOT,"u","t","f","-","8",QUOT,"?",">">>
RES_OPEN == <<"<","r","e","s","o","u","r","c","e","s",">">>
RES_CLOSE == <<"<","/","r","e","s","o","u","r","c","e","s",">">>
RES_EMPTY == <<"<","r","e","s","o","u","r","c","e","s","/",">">>
STR_OPEN == <<"<","s","t","r","i","n","g"," ","n","a","m","e","=",QUOT>>
STR_CLOSE == <<"<","/","s","t","r","i","n","g",">">>
INDENT == <<" "," "," "," ">>

\* the tree built at lines 163-166: one <string> element per item
AndroidTree(its) ==
    [i \in 1..Len(its) |->
        [name |-> its[i][1], text |-> escape_android_text(its[i][2])]]

\* ET.tostring followed by minidom.parseString: every attribute value and
\* text is escaped by the serializer and resolved again by the parser
Reparsed(tree) ==
    [i \in 1..Len(tree) |->
        [name |-> XmlUnescape(EtEscapeAttrib(tree[i].name)),
         text |-> XmlUnescape(EtEscapeCdata(tree[i].text))]]

\* toprettyxml(indent='    ', encoding='utf-8') of one <string> element; an
\* element without text is written as an empty-element tag
PrettyString(e, quot) ==
    INDENT \o STR_OPEN \o MinidomWriteData(e.name, TRUE) \o <<QUOT>> \o
    (IF e.text = <<>> THEN <<"/", ">">>
     ELSE <<">">> \o MinidomWriteData(e.text, quot) \o STR_CLOSE) \o <<NL>>

\* the bytes written to strings.xml
AndroidFile(its, quot) ==
    LET doc == Reparsed(AndroidTree(its))
    IN XML_DECL \o <<NL>> \o
       (IF doc = <<>> THEN RES_EMPTY
        ELSE RES_OPEN \o <<NL>> \o
             Flatten([i \in 1..Len(doc) |-> PrettyString(doc[i], quot)]) \o
             RES_CLOSE) \o <<NL>>

VALUES_ == <<"v","a","l","u","e","s","-">>

\* os.path.join(output_root, f'values-{language_code}', 'strings.xml'),
\* relative to output_root, as its components
AndroidPath(language_code) == <<VALUES_ \o language_code, "strings.xml">>

(***************************************************************************)
(* write_ios_resources                                                     *)
(***************************************************************************)
\* the order the documentation gives: backslash first, double quote second
IosEscapeBackslashFirst(s) ==
    Replace(Replace(s, BSL, <<BSL, BSL>>), QUOT, <<BSL, QUOT>>)

\* .replace('"', '\\"').replace('\\', '\\\\')
IosEscape(s) == Replace(Replace(s, QUOT, <<BSL, QUOT>>), BSL, <<BSL, BSL>>)

IosLine(item) ==
    <<QUOT>> \o IosEscape(item[1]) \o <<QUOT, " ", "=", " ", QUOT>> \o
    IosEscape(item[2]) \o <<QUOT, ";", NL>>

IosFile(its) == Flatten([i \in 1..Len(its) |-> IosLine(its[i])])

LPROJ == <<".","l","p","r","o","j">>

IosPath(language_code) == <<language_code \o LPROJ, "Localizable.strings">>

(***************************************************************************)
(* write_pc_resources                                                      *)
(***************************************************************************)
PcLine(item) ==
    item[1] \o <<" ", "=", " ", QUOT>> \o item[2] \o <<QUOT, ";", NL>>

PcFile(its) == Flatten([i \in 1..Len(its) |-> PcLine(its[i])])

INI == <<".","i","n","i">>

PcPath(language_code) == <<language_code \o INI>>

(***************************************************************************)
(* The table (DataFrame) and the steps of convert_table                    *)
(***************************************************************************)
\* the header 'key'
KEY == Str(<<"k","e","y">>)

\* an empty spreadsheet cell, read as NaN
NaN == <<"<NaN>">>

\* str(NaN)
NAN_STR == <<"n","a","n">>

\* df['key'] = df['key'].astype(str); df.fillna('', inplace=True)
Normalize(t) ==
    [t EXCEPT !.rows =
        [i \in 1..Len(t.rows) |->
            [h \in DOMAIN t.rows[i] |->
                LET c == t.rows[i][h]
                IN IF c # NaN THEN c
                   ELSE IF h = KEY THEN NAN_STR ELSE <<>>]]]

\* a duplicate check that reports nothing
DuplicatedKeysNone(t) == {}

\* df['key'][df['key'].duplicated()]: the keys of the rows that repeat the
\* key of an earlier row
DuplicatedKeys(t) ==
    {t.rows[i][KEY] : i \in {k \in 1..Len(t.rows) :
                                \E j \in 1..(k - 1) : t.rows[j][KEY] = t.rows[k][KEY]}}

\* lines 270-275: the dict language_columns as its items in insertion order
LanguageColumns(t) ==
    LET cols == SelectSeq(t.columns, LAMBDA col : col # KEY)
    IN [i \in 1..Len(cols) |-> <<cols[i], parse_language_code(cols[i])>>]

\* an item builder that takes every cell as it is, blank or not
ItemsNoFallback(t, col, fb) ==
    [i \in 1..Len(t.rows) |-> <<t.rows[i][KEY], t.rows[i][col]>>]

\* lines 284-290: the cells are str after Normalize, so str() changes nothing
\* and fallback_value is never None
Items(t, col, fb) ==
    [i \in 1..Len(t.rows) |->
        LET key == t.rows[i][KEY]
            raw_value == t.rows[i][col]
            fallback_value == t.rows[i][fb]
        IN <<key, IF Strip(raw_value) # <<>> THEN raw_value ELSE fallback_value>>]

(***************************************************************************)
(* main                                                                    *)
(***************************************************************************)
android == <<"a","n","d","r","o","i","d">>
ios == <<"i","o","s">>
pc_name == <<"p","c">>
xbox == <<"x","b","o","x">>
\* a platform set that lets an unsupported name through
allowedWithXbox == {android, ios, pc_name, xbox}

\* line 311
allowed == {android, ios, pc_name}

\* [p.strip().lower() for p in args.platforms.split(',') if p.strip()]
ParsePlatformList(tokens) ==
    LET kept == SelectSeq(tokens, LAMBDA p : Strip(p) # <<>>)
    IN [i \in 1..Len(kept) |-> Lower(Strip(kept[i]))]

\* [p for p in platform_list if p not in allowed]
Invalid(pl) == SelectSeq(pl, LAMBDA p : p \notin allowed)

NoTable == [columns |-> <<>>, rows |-> <<>>]

\* lines 310-315, unsupported platform: sys.exit(1)
MainUnsupported ==
    /\ pc = "main"
    /\ Invalid(ParsePlatformList(args_platforms)) # <<>>
    /\ platform_list' = ParsePlatformList(args_platforms)
    /\ pc' = "exit_unsupported"
    /\ UNCHANGED <<args_platforms, xlsx, root_exists, old, fsys, df,
                   language_columns, fallback_col, ci, items, trace>>

\* lines 310-315, every platform supported
MainPlatformsOk ==
    /\ pc = "main"
    /\ Invalid(ParsePlatformList(args_platforms)) = <<>>
    /\ platform_list' = ParsePlatformList(args_platforms)
    /\ pc' = "clear"
    /\ UNCHANGED <<args_platforms, xlsx, root_exists, old, fsys, df,
                   language_columns, fallback_col, ci, items, trace>>

\* lines 317-318 with clear_dir_contents returning normally: every entry of
\* an existing root is removed, an absent root is created
ClearOk ==
    /\ pc = "clear"
    /\ root_exists' = TRUE
    /\ old' = {}
    /\ trace' = Append(trace, <<"clear_dir_contents", <<>>>>)
    /\ pc' = "read"
    /\ UNCHANGED <<args_platforms, xlsx, platform_list, fsys, df,
                   language_columns, fallback_col, ci, items>>

\* lines 317-320 with clear_dir_contents raising (os.listdir, os.remove,
\* shutil.rmtree or os.makedirs fails): the entries removed before the failure
\* are gone, in the order os.listdir gave them, at least one entry remains (or
\* the root is still absent); the except clause prints and main goes on
ClearRaises ==
    /\ pc = "clear"
    /\ IF root_exists
       THEN \E kept \in SUBSET old : (old = {} \/ kept # {}) /\ old' = kept
       ELSE old' = old
    /\ trace' = Append(trace, <<"clear_dir_contents", <<>>>>)
    /\ pc' = "read"
    /\ UNCHANGED <<args_platforms, xlsx, platform_list, root_exists, fsys, df,
                   language_columns, fallback_col, ci, items>>

\* lines 323-324, the spreadsheet is read
ReadOk ==
    /\ pc = "read"
    /\ xlsx.readable
    /\ df' = [columns |-> xlsx.columns, rows |-> xlsx.rows]
    /\ trace' = Append(trace, <<"read_excel", <<>>>>)
    /\ pc' = "convert"
    /\ UNCHANGED <<args_platforms, xlsx, platform_list, root_exists, old, fsys,
                   language_columns, fallback_col, ci, items>>

\* lines 323-327, pd.read_excel raises: sys.exit(1)
ReadFails ==
    /\ pc = "read"
    /\ ~xlsx.readable
    /\ trace' = Append(trace, <<"read_excel", <<>>>>)
    /\ pc' = "exit_read"
    /\ UNCHANGED <<args_platforms, xlsx, platform_list, root_exists, old, fsys, df,
                   language_columns, fallback_col, ci, items>>

\* lines 255-256 and 331-333
ConvertMissingKey ==
    /\ pc = "convert"
    /\ KEY \notin Range(df.columns)
    /\ pc' = "exit_missing_key"
    /\ UNCHANGED <<args_platforms, xlsx, platform_list, root_exists, old, fsys, df,
                   language_columns, fallback_col, ci, items, trace>>

\* lines 259-267 and 331-333
ConvertDuplicateKeys ==
    /\ pc = "convert"
    /\ KEY \in Range(df.columns)
    /\ DuplicatedKeys(Normalize(df)) # {}
    /\ df' = Normalize(df)
    /\ pc' = "exit_duplicate_keys"
    /\ UNCHANGED <<args_platforms, xlsx, platform_list, root_exists, old, fsys,
                   language_columns, fallback_col, ci, items, trace>>

\* lines 259-278 and 331-333
ConvertNoLanguageColumns ==
    /\ pc = "convert"
    /\ KEY \in Range(df.columns)
    /\ DuplicatedKeys(Normalize(df)) = {}
    /\ LanguageColumns(Normalize(df)) = <<>>
    /\ df' = Normalize(df)
    /\ language_columns' = <<>>
    /\ pc' = "exit_no_language_columns"
    /\ UNCHANGED <<args_platforms, xlsx, platform_list, root_exists, old, fsys,
                   fallback_col, ci, items, trace>>

\* lines 255-280, the table passes validation
ConvertValidated ==
    /\ pc = "convert"
    /\ KEY \in Range(df.columns)
    /\ DuplicatedKeys(Normalize(df)) = {}
    /\ LanguageColumns(Normalize(df)) # <<>>
    /\ df' = Normalize(df)
    /\ language_columns' = LanguageColumns(Normalize(df))
    /\ fallback_col' = determine_fallback_column(LanguageColumns(Normalize(df)))
    /\ ci' = 1
    /\ pc' = "loop"
    /\ UNCHANGED <<args_platforms, xlsx, platform_list, root_exists, old, fsys,
                   items, trace>>

\* lines 283-290: the next language column's items
BuildItems ==
    /\ pc = "loop"
    /\ ci <= Len(language_columns)
    /\ items' = Items(df, language_columns[ci][1], fallback_col)
    /\ pc' = "android"
    /\ UNCHANGED <<args_platforms, xlsx, platform_list, root_exists, old, fsys, df,
                   language_columns, fallback_col, ci, trace>>

\* every emitter called, requested or not
RequestedAlways(stage) == TRUE

\* 'android' in platforms, 'ios' in platforms, 'pc' in platforms
Requested(stage) ==
    CASE stage = "android" -> android \in Range(platform_list)
      [] stage = "ios" -> ios \in Range(platform_list)
      [] stage = "pc" -> pc_name \in Range(platform_list)

EmitterOf(stage) ==
    CASE stage = "android" -> "write_android_resources"
      [] stage = "ios" -> "write_ios_resources"
      [] stage = "pc" -> "write_pc_resources"

\* where the loop body goes after the emitter of a stage
AfterStage(stage) ==
    CASE stage = "android" -> "ios"
      [] stage = "ios" -> "pc"
      [] stage = "pc" -> "loop"

\* a write that leaves an existing file as it is
WriteKeepFirst(path, content) == IF path \in DOMAIN fsys THEN fsys ELSE (path :> content) @@ fsys

\* open(file_path, 'w' or 'wb') and write: the file holds content alone
Write(path, content) == (path :> content) @@ fsys

\* lines 293-294 and write_android_resources.  The text nodes' double quotes
\* are written as &quot; or as they are, as the installed minidom does.
WriteAndroid ==
    /\ pc = "android"
    /\ Requested("android")
    /\ \E quot \in BOOLEAN :
          fsys' = Write(AndroidPath(language_columns[ci][2]), AndroidFile(items, quot))
    /\ root_exists' = TRUE
    /\ trace' = Append(trace, <<"write_android_resources", language_columns[ci][2]>>)
    /\ pc' = "ios"
    /\ UNCHANGED <<args_platforms, xlsx, platform_list, old, df,
                   language_columns, fallback_col, ci, items>>

\* lines 295-296 and write_ios_resources
WriteIos ==
    /\ pc = "ios"
    /\ Requested("ios")
    /\ fsys' = Write(IosPath(language_columns[ci][2]), IosFile(items))
    /\ root_exists' = TRUE
    /\ trace' = Append(trace, <<"write_ios_resources", language_columns[ci][2]>>)
    /\ pc' = "pc"
    /\ UNCHANGED <<args_platforms, xlsx, platform_list, old, df,
                   language_columns, fallback_col, ci, items>>

\* lines 297-298 and write_pc_resources; the loop moves to the next column
WritePc ==
    /\ pc = "pc"
    /\ Requested("pc")
    /\ fsys' = Write(PcPath(language_columns[ci][2]), PcFile(items))
    /\ root_exists' = TRUE
    /\ trace' = Append(trace, <<"write_pc_resources", language_columns[ci][2]>>)
    /\ pc' = "loop"
    /\ ci' = ci + 1
    /\ UNCHANGED <<args_platforms, xlsx, platform_list, old, df,
                   language_columns, fallback_col, items>>

\* lines 293, 295, 297: a platform that was not requested is passed over
SkipEmitter ==
    /\ pc \in {"android", "ios", "pc"}
    /\ ~Requested(pc)
    /\ pc' = AfterStage(pc)
    /\ ci' = IF pc = "pc" THEN ci + 1 ELSE ci
    /\ UNCHANGED <<args_platforms, xlsx, platform_list, root_exists, old, fsys, df,
                   language_columns, fallback_col, items, trace>>

\* an emitter raises OSError (os.makedirs or open fails): main catches
\* ValueError only, the run ends with a traceback and the files written so
\* far stay; os.makedirs may have created the root before the failure
EmitterRaises ==
    /\ pc \in {"android", "ios", "pc"}
    /\ Requested(pc)
    /\ \E r \in {root_exists, TRUE} : root_exists' = r
    /\ trace' = Append(trace, <<EmitterOf(pc), language_columns[ci][2]>>)
    /\ pc' = "crash"
    /\ UNCHANGED <<args_platforms, xlsx, platform_list, old, fsys, df,
                   language_columns, fallback_col, ci, items>>

\* the loop of line 283 is exhausted; line 335 prints the confirmation
MainSuccess ==
    /\ pc = "loop"
    /\ ci > Len(language_columns)
    /\ pc' = "done"
    /\ UNCHANGED <<args_platforms, xlsx, platform_list, root_exists, old, fsys, df,
                   language_columns, fallback_col, ci, items, trace>>

Next ==
    \/ MainUnsupported
    \/ MainPlatformsOk
    \/ ClearOk
    \/ ClearRaises
    \/ ReadOk
    \/ ReadFails
    \/ ConvertMissingKey
    \/ ConvertDuplicateKeys
    \/ ConvertNoLanguageColumns
    \/ ConvertValidated
    \/ BuildItems
    \/ WriteAndroid
    \/ WriteIos
    \/ WritePc
    \/ SkipEmitter
    \/ EmitterRaises
    \/ MainSuccess

(***************************************************************************)
(* Inputs                                                                  *)
(***************************************************************************)
MaxCols == 2          \* language columns of a table
MaxHeaderLen == 5     \* characters of a header given to parse_language_code
MaxTextLen == 3       \* characters of a key or value given to the emitters
MaxRows == 2          \* rows of a table given to the item builder

\* all texts of at most n characters of A
Texts(A, n) == UNION {[1..k -> A] : k \in 0..n}

\* all sequences of at most n distinct elements of S
DistinctSeqs(S, n) ==
    UNION {{q \in [1..k -> S] : \A i, j \in 1..k : i # j => q[i] # q[j]} : k \in 0..n}

RECURSIVE Pick(_, _, _)
Pick(seq, S, i) ==
    IF i > Len(seq) THEN <<>>
    ELSE (IF i \in S THEN <<seq[i]>> ELSE <<>>) \o Pick(seq, S, i + 1)

IOS_TOKEN == <<" ","i","O","S"," ">>
BLANK_TOKEN == <<" ">>

\* --platforms values: the supported names in any combination (one of them
\* padded and in mixed case, possibly with a blank token), and two values
\* that name an unsupported platform
PlatformArgs ==
    {Pick(<<android, IOS_TOKEN, pc_name, BLANK_TOKEN>>, S, 1) : S \in SUBSET (1..4)}
    \cup {<<xbox>>, <<android, xbox, pc_name>>}

\* the output root before the run: <<exists, entries>>
OutputRoots == {<<FALSE, {}>>, <<TRUE, {}>>, <<TRUE, {"old.txt", "old_dir"}>>}

H_fr == Str(<<"f","r">>)
H_Ffr == Str(<<"F"," ","(","f","r",")">>)
H_es == Str(<<"S","(","e","s",")">>)
H_en == Str(<<"E"," ","(","E","n",")">>)
HeaderPool == {H_fr, H_Ffr, H_es, H_en}

Sheet(columns, rows) == [readable |-> TRUE, columns |-> columns, rows |-> rows]
Unreadable == [readable |-> FALSE, columns |-> <<>>, rows |-> <<>>]

Row(key, cells) == (KEY :> key) @@ cells

\* rows for the language columns cols: two rows with distinct keys ("ok"), two
\* rows with the same key ("dup"), or an empty key cell beside the key 'nan'
SampleRows(cols, kind) ==
    LET own == [h \in Range(cols) |-> h.s]
        sparse == [h \in Range(cols) |-> IF h = cols[Len(cols)] THEN <<"y">> ELSE NaN]
    IN CASE kind = "ok" -> <<Row(<<"a">>, own), Row(<<"b">>, sparse)>>
         [] kind = "dup" -> <<Row(<<"a">>, own), Row(<<"a">>, sparse)>>
         [] kind = "nan" -> <<Row(NaN, own), Row(NAN_STR, sparse)>>

SampleSheets ==
    {Sheet(<<KEY>> \o cols, SampleRows(cols, kind)) :
        cols \in DistinctSeqs(HeaderPool, MaxCols), kind \in {"ok", "dup", "nan"}}
    \cup {Sheet(<<H_fr>>, <<[h \in {H_fr} |-> <<"x">>]>>), Sheet(<<>>, <<>>), Unreadable}

InitWith(A, F, X) ==
    /\ pc = "main"
    /\ args_platforms \in A
    /\ xlsx \in X
    /\ \E f \in F : root_exists = f[1] /\ old = f[2]
    /\ platform_list = <<>>
    /\ fsys = <<>>
    /\ df = NoTable
    /\ language_columns = <<>>
    /\ fallback_col = KEY
    /\ ci = 0
    /\ items = <<>>
    /\ trace = <<>>

Init == InitWith(PlatformArgs, OutputRoots, SampleSheets)

Spec == Init /\ [][Next]_vars

\* a few runs that between them take every step of the program
CoverInit ==
    InitWith({<<android, IOS_TOKEN, pc_name>>, <<android>>, <<xbox>>},
             {<<FALSE, {}>>, <<TRUE, {"old.txt"}>>},
             {Sheet(<<KEY>> \o cols, SampleRows(cols, kind)) :
                 cols \in {<<>>, <<H_es, H_en>>}, kind \in {"ok", "dup"}}
             \cup {Sheet(<<H_fr>>, <<[h \in {H_fr} |-> <<"x">>]>>), Unreadable})

\* parse_language_code on every header text, str or not
ParseAlphabet == {"(", ")", " ", "a"}
ParseSheets ==
    {Sheet(<<KEY, h>>, <<Row(<<"a">>, [c \in {h} |-> <<"x">>])>>) :
        h \in {Str(t) : t \in Texts(ParseAlphabet, MaxHeaderLen)}
              \cup {NonStr(t) : t \in Texts(ParseAlphabet, MaxHeaderLen)}}

InitParse ==
    \/ CoverInit
    \/ InitWith({<<pc_name>>}, {<<TRUE, {}>>}, ParseSheets)

SpecParse == InitParse /\ [][Next]_vars

\* the emitters on every key and on every value
EscapeAlphabet == {AMP, LT, GT, QUOT, APOS, BSL, "a"}
EscapeSheets ==
    {Sheet(<<KEY, H_en>>, <<Row(t, [c \in {H_en} |-> <<"v">>])>>) :
        t \in Texts(EscapeAlphabet, MaxTextLen)}
    \cup {Sheet(<<KEY, H_en>>, <<Row(<<"k">>, [c \in {H_en} |-> t])>>) :
        t \in Texts(EscapeAlphabet, MaxTextLen)}

InitEscape ==
    \/ CoverInit
    \/ InitWith({<<android, ios, pc_name>>}, {<<TRUE, {}>>}, EscapeSheets)

SpecEscape == InitEscape /\ [][Next]_vars

\* the item builder on every combination of blank and non-blank cells
KeyNames == <<"a", "b", "c", "d", "e">>
CellPool == {NaN, <<" ">>, <<" ","y">>}
ItemSheetsFor(cols) ==
    UNION {{Sheet(<<KEY>> \o cols, [i \in 1..n |-> Row(<<KeyNames[i]>>, cells[i])]) :
               cells \in [1..n -> [Range(cols) -> CellPool]]} : n \in 0..MaxRows}
ItemSheets == ItemSheetsFor(<<H_fr, H_en>>) \cup ItemSheetsFor(<<H_fr, H_Ffr>>)

InitItems ==
    \/ CoverInit
    \/ InitWith({<<pc_name>>}, {<<TRUE, {}>>}, ItemSheets)

SpecItems == InitItems /\ [][Next]_vars

(***************************************************************************)
(* Properties                                                              *)
(***************************************************************************)
IsPrefix(a, b) == Len(a) <= Len(b) /\ SubSeq(b, 1, Len(a)) = a

Emitters == {"write_android_resources", "write_ios_resources", "write_pc_resources"}

\* the emitter invocations so far, in order
EmitTrace == SelectSeq(trace, LAMBDA e : e[1] \in Emitters)

Validated == pc \in {"loop", "android", "ios", "pc", "done", "crash"}

ValidationExits ==
    {"exit_missing_key", "exit_duplicate_keys", "exit_no_language_columns"}

\* the key of row i of the spreadsheet after string coercion
CoercedKey(i) ==
    IF xlsx.rows[i][KEY] = NaN THEN NAN_STR ELSE xlsx.rows[i][KEY]

\* the spreadsheet fails one of the three validation rules
SheetInvalid ==
    \/ KEY \notin Range(xlsx.columns)
    \/ \E i, j \in 1..Len(xlsx.rows) : i # j /\ CoercedKey(i) = CoercedKey(j)
    \/ Range(xlsx.columns) \subseteq {KEY}

\* C1: when convert_table raises a validation error (no 'key' column, a key
\* repeated after string coercion, no language column) no emitter has been
\* invoked and no file has been written, whatever platforms were requested;
\* and a table that breaks one of the three rules never gets past validation.
C1_ValidationWritesNothing ==
    /\ pc \in ValidationExits => (EmitTrace = <<>> /\ DOMAIN fsys = {})
    /\ (xlsx.readable /\ SheetInvalid) =>
          (~Validated /\ EmitTrace = <<>> /\ DOMAIN fsys = {})

C1_Witness ==
    /\ pc = "exit_duplicate_keys"
    /\ Len(platform_list) = 3
    /\ Len(xlsx.columns) = 3
    /\ xlsx.rows[1][KEY] = NaN

\* some requested platform, trimmed and lower-cased, is none of android, ios, pc
SomeUnsupported ==
    \E k \in 1..Len(args_platforms) :
        /\ Strip(args_platforms[k]) # <<>>
        /\ Lower(Strip(args_platforms[k])) \notin {android, ios, pc_name}

\* C2: when the platform list holds an identifier outside {android, ios, pc},
\* main ends with exit code 1 before anything else happens: the output root
\* is neither cleared nor created, the table is not read, no file is written.
C2_UnsupportedBeforeIO ==
    SomeUnsupported =>
        /\ pc \in {"main", "exit_unsupported"}
        /\ trace = <<>>
        /\ DOMAIN fsys = {}
        /\ df = NoTable

C2_Witness ==
    /\ pc = "exit_unsupported"
    /\ Len(platform_list) = 3
    /\ root_exists
    /\ old # {}
    /\ xlsx.readable

\* C3: whenever a file of this run exists, every pre-existing entry of the
\* output root has been removed and the root exists, on every path through
\* main, the one where clear_dir_contents raises included.
C3_ClearedBeforeFirstWrite ==
    DOMAIN fsys # {} => (old = {} /\ root_exists)

\* the fallback of the claim: first column whose code is an English code
\* (en, en-us, en_us, english), else the first column
ClaimedFallback(languages) ==
    IF \E i \in 1..Len(languages) : Lower(languages[i][2]) \in ClaimedEnglishCodes
    THEN languages[CHOOSE i \in 1..Len(languages) :
                      /\ Lower(languages[i][2]) \in ClaimedEnglishCodes
                      /\ \A j \in 1..(i - 1) :
                            Lower(languages[j][2]) \notin ClaimedEnglishCodes][1]
    ELSE languages[1][1]

\* C4: the fallback column is the first column, in column order, whose code
\* lower-cased is one of en, en-us, en_us, english, and the first column when
\* there is none; a Spanish (es) column is the fallback only without an
\* English column.
C4_FallbackIsFirstEnglish ==
    Validated => fallback_col = ClaimedFallback(language_columns)

\* the file the iOS emitter would write when escaping backslash first
ClaimedIosFile(its) ==
    Flatten([i \in 1..Len(its) |->
        <<QUOT>> \o IosEscapeBackslashFirst(its[i][1]) \o
        <<QUOT, " ", "=", " ", QUOT>> \o
        IosEscapeBackslashFirst(its[i][2]) \o <<QUOT, ";", NL>>])

\* C5: the iOS emitter escapes backslash first and double quote second, for
\* key and value alike: the file written for a column holds, for each item,
\* "<key>" = "<value>"; with \ written as \\ and " written as \".
C5_IosBackslashFirst ==
    (pc = "pc" /\ ios \in Range(platform_list)) =>
        fsys[IosPath(language_columns[ci][2])] = ClaimedIosFile(items)

\* the text of the claim: & first, then < and >, double quotes unchanged,
\* finally the apostrophe, each escaped once
ClaimedAndroidText(value) ==
    Replace(Replace(Replace(Replace(value, AMP, E_AMP), LT, E_LT), GT, E_GT),
            APOS, <<BSL, APOS>>)

\* strings.xml with the claimed text as the element text of every item
ClaimedAndroidFile(its) ==
    XML_DECL \o <<NL>> \o
    (IF its = <<>> THEN RES_EMPTY
     ELSE RES_OPEN \o <<NL>> \o
          Flatten([i \in 1..Len(its) |->
              INDENT \o STR_OPEN \o MinidomWriteData(its[i][1], TRUE) \o <<QUOT>> \o
              (IF its[i][2] = <<>> THEN <<"/", ">">>
               ELSE <<">">> \o ClaimedAndroidText(its[i][2]) \o STR_CLOSE) \o <<NL>>]) \o
          RES_CLOSE) \o <<NL>>

\* C6: the element text written to strings.xml for an item is its value with
\* & replaced by &amp;, then < by &lt; and > by &gt;, double quotes unchanged,
\* then ' by \', each special character escaped exactly once.
C6_AndroidEscapedOnce ==
    (pc = "ios" /\ android \in Range(platform_list)) =>
        fsys[AndroidPath(language_columns[ci][2])] = ClaimedAndroidFile(items)

\* a cell as convert_table sees it: an empty cell is the empty string
RawCell(i, col) == IF xlsx.rows[i][col] = NaN THEN <<>> ELSE xlsx.rows[i][col]

\* empty after trimming
Blank(text) == \A k \in 1..Len(text) : text[k] \in Whitespace

\* C7: the item list of a language column has one (key, value) pair per row,
\* in row order; the value is the row's raw cell when that is non-empty after
\* trimming, and otherwise the raw cell of the row in the fallback column.
C7_ItemsResolveFallback ==
    pc \in {"android", "ios", "pc"} =>
        /\ Len(items) = Len(xlsx.rows)
        /\ \A i \in 1..Len(items) :
              /\ items[i][1] = CoercedKey(i)
              /\ items[i][2] =
                    IF ~Blank(RawCell(i, language_columns[ci][1]))
                    THEN RawCell(i, language_columns[ci][1])
                    ELSE RawCell(i, fallback_col)

C7_Witness ==
    /\ pc = "pc"
    /\ language_columns[ci][1] # fallback_col
    /\ Len(items) = 2
    /\ xlsx.rows[1][language_columns[ci][1]] = <<" ","y">>
    /\ items[1][2] = <<" ","y">>
    /\ xlsx.rows[2][language_columns[ci][1]] = <<" ">>
    /\ xlsx.rows[2][fallback_col] = <<" ","y">>
    /\ items[2][2] = <<" ","y">>

\* the emitter invocations of a whole run: column by column in column order,
\* and for each column android, ios, pc, those requested only
ExpectedEmitTrace ==
    Flatten([i \in 1..Len(language_columns) |->
        (IF android \in Range(platform_list)
         THEN <<(<<"write_android_resources", language_columns[i][2]>>)>> ELSE <<>>) \o
        (IF ios \in Range(platform_list)
         THEN <<(<<"write_ios_resources", language_columns[i][2]>>)>> ELSE <<>>) \o
        (IF pc_name \in Range(platform_list)
         THEN <<(<<"write_pc_resources", language_columns[i][2]>>)>> ELSE <<>>)])

\* C8: the language columns are processed in original column order; for each
\* column the requested emitters are invoked in the order android, ios, pc,
\* each once, no other emitter is invoked, and a column's emitters come
\* before the next column's.
C8_EmitterOrder ==
    /\ IsPrefix(EmitTrace, ExpectedEmitTrace)
    /\ Validated =>
          [i \in 1..Len(language_columns) |-> language_columns[i][1]]
              = SelectSeq(xlsx.columns, LAMBDA c : c # KEY)
    /\ pc = "done" => EmitTrace = ExpectedEmitTrace

C8_Witness ==
    /\ pc = "done"
    /\ Len(language_columns) = 2
    /\ Len(platform_list) = 2
    /\ Len(EmitTrace) = 4
    /\ pc_name \notin Range(platform_list)

\* the text s contains a parenthesized group
HasGroup(s) == \E i, j \in 1..Len(s) : i < j /\ s[i] = "(" /\ s[j] = ")"

\* the contents of the first group of s: from the first '(' that is closed
\* to the first ')' after it
FirstGroup(s) ==
    LET i == CHOOSE k \in 1..Len(s) :
                 /\ s[k] = "(" /\ \E j \in (k + 1)..Len(s) : s[j] = ")"
                 /\ \A m \in 1..(k - 1) :
                       ~(s[m] = "(" /\ \E j \in (m + 1)..Len(s) : s[j] = ")")
        j == CHOOSE k \in (i + 1)..Len(s) :
                 s[k] = ")" /\ \A m \in (i + 1)..(k - 1) : s[m] # ")"
    IN SubSeq(s, i + 1, j - 1)

\* C9 as stated: for every header with a parenthesized group the code is the
\* trimmed contents of the first group (an empty first group and a header
\* that is not a string included), and the trimmed header otherwise.
C9_FirstGroupAlways ==
    Validated =>
        \A k \in 1..Len(language_columns) :
            language_columns[k][2] =
                IF HasGroup(language_columns[k][1].s)
                THEN Strip(FirstGroup(language_columns[k][1].s))
                ELSE Strip(language_columns[k][1].s)

\* '(' at i, ')' at j, and between them one or more characters, none a ')'
NonEmptyGroup(s, i, j) ==
    /\ i + 1 < j
    /\ s[i] = "("
    /\ s[j] = ")"
    /\ \A m \in (i + 1)..(j - 1) : s[m] # ")"

\* C9 (amended): for a string header in which some '(' is followed by one or
\* more characters other than ')' and then by ')', the code is the trimmed
\* text between the leftmost such '(' and the first ')' after it; for every
\* other string header and for every header that is not a string the code is
\* the whole header text, trimmed.
C9_FirstNonEmptyGroup ==
    Validated =>
        \A k \in 1..Len(language_columns) :
            LET h == language_columns[k][1]
                s == h.s
            IN IF h.isstr /\ \E i, j \in 1..Len(s) : NonEmptyGroup(s, i, j)
               THEN \E i, j \in 1..Len(s) :
                       /\ NonEmptyGroup(s, i, j)
                       /\ \A m \in 1..(i - 1), n \in 1..Len(s) : ~NonEmptyGroup(s, m, n)
                       /\ language_columns[k][2] = Strip(SubSeq(s, i + 1, j - 1))
               ELSE language_columns[k][2] = Strip(s)

C9_Witness ==
    /\ pc = "done"
    /\ language_columns[1][1] = Str(<<"(", ")", "(", "a">> \o <<")">>)
    /\ language_columns[1][2] = <<"a">>

Codes == {language_columns[i][2] : i \in 1..Len(language_columns)}

\* the last column, in column order, that resolves to code
LastColumnOf(code) ==
    language_columns[CHOOSE i \in 1..Len(language_columns) :
                        /\ language_columns[i][2] = code
                        /\ \A j \in (i + 1)..Len(language_columns) :
                              language_columns[j][2] # code][1]

\* C10: when columns resolve to the same code each emitter writes them to the
\* same path: once convert_table has completed, the file of a code holds the
\* items of the last column with that code and nothing else, and every
\* requested platform has as many files as there are distinct codes.
C10_LastColumnWins ==
    pc = "done" =>
        /\ \A code \in Codes :
              LET its == Items(df, LastColumnOf(code), fallback_col)
              IN /\ android \in Range(platform_list) =>
                      fsys[AndroidPath(code)] \in {AndroidFile(its, q) : q \in BOOLEAN}
                 /\ ios \in Range(platform_list) =>
                      fsys[IosPath(code)] = IosFile(its)
                 /\ pc_name \in Range(platform_list) =>
                      fsys[PcPath(code)] = PcFile(its)
        /\ Cardinality({p \in DOMAIN fsys : Len(p) = 2 /\ p[2] = "strings.xml"})
              = IF android \in Range(platform_list) THEN Cardinality(Codes) ELSE 0
        /\ Cardinality({p \in DOMAIN fsys : Len(p) = 2 /\ p[2] = "Localizable.strings"})
              = IF ios \in Range(platform_list) THEN Cardinality(Codes) ELSE 0
        /\ Cardinality({p \in DOMAIN fsys : Len(p) = 1})
              = IF pc_name \in Range(platform_list) THEN Cardinality(Codes) ELSE 0

C10_Witness ==
    /\ pc = "done"
    /\ Len(language_columns) = 2
    /\ Cardinality(Codes) = 1
    /\ language_columns[1][1] = H_fr
    /\ Len(platform_list) = 3
    /\ Cardinality(DOMAIN fsys) = 3
    /\ Items(df, language_columns[1][1], fallback_col)
          # Items(df, language_columns[2][1], fallback_col)

====
